---- MODULE Spec2Model ----
(***************************************************************************)
(* The realtime editing subsystem of HedgeDoc's backend: the gateway that  *)
(* admits websocket clients (WebsocketGateway), the registry of realtime   *)
(* notes (RealtimeNoteService), the note hub (RealtimeNote) with its       *)
(* Y.Doc (WebsocketDoc) and awareness (WebsocketAwareness), and the        *)
(* per-client connection (WebsocketConnection).                            *)
(*                                                                         *)
(* JavaScript runs one handler at a time; a handler is interrupted only at *)
(* an await that waits for I/O.  Each action below is one such run: from   *)
(* an event (connection, message, close, error, a resolved lookup) to the  *)
(* next suspension.  Consecutive awaits with no access to shared state in  *)
(* between (the session, user, note and permission lookups) are one        *)
(* suspension.                                                             *)
(*                                                                         *)
(* A connection is identified by its socket (the gateway constructs at    *)
(* most one WebsocketConnection per socket), a hub by the socket whose     *)
(* admission constructed it (an admission constructs at most one hub).     *)
(***************************************************************************)
EXTENDS Integers, Sequences, FiniteSets, TLC

\* ------------------------------------------------------------------ bounds
NumSockets == 2      \* websocket clients that ever connect
NumNotes == 1        \* note ids
NumUpdates == 2      \* distinct document updates clients produce
MaxFrames == 2       \* inbound frames handled in one run of the system
MaxClock == 1        \* highest awareness clock a client sends
MaxTicks == 4        \* runs of the keep-alive interval's callback
MaxPongs == 3        \* pong frames the monitored peer sends
MaxPeerPings == 2    \* ping frames the monitored peer sends
MaxPathLen == 4      \* pieces of a request path

Sockets == 1..NumSockets
Hubs == Sockets
Notes == 1..NumNotes
NoHub == 0
InitialStruct == 0                    \* the struct holding the initial content
Structs == 0..NumUpdates               \* what a Y.Doc can hold
UpdateIds == 1..NumUpdates
ServerClientId == 0                    \* the awareness client id of the hub's own doc
ClientIds == Sockets                   \* a peer's awareness client id

VARIABLES
    readyState,          \* socket -> "NONE" | "OPEN" | "CLOSING" | "CLOSED"
    pc,                  \* socket -> position of its handleConnection call
    reqNote,             \* socket -> note.id resolved for the request
    returned,            \* socket -> hub its getOrCreateRealtimeNote call returned
    socketToConnection,  \* WebsocketGateway.socketToConnection (its key set)
    connHub,             \* socket -> WebsocketConnection.realtimeNote (NoHub: none built)
    registry,            \* RealtimeNoteService.noteIdToRealtimeNote
    constructed,         \* the RealtimeNote objects constructed so far
    hubNote,             \* hub -> RealtimeNote.noteId
    clients,             \* hub -> RealtimeNote.clients
    isClosing,           \* hub -> RealtimeNote.isClosing
    docDestroyCalls,     \* hub -> calls of websocketDoc.destroy()
    awDestroyCalls,      \* hub -> calls of websocketAwareness.destroy()
    doc,                 \* hub -> structs the Y.Doc holds
    awClock,             \* hub -> client id -> clock of Awareness.meta (-1: no meta)
    awStates,            \* hub -> client ids with an entry in Awareness.states
    out,                 \* socket -> frames handed to websocket.send, in order
    synced,              \* socket -> the hub has processed a STEP2 from it
    overlapped,          \* socket -> getOrCreate calls in flight when its own began
    loaderInvoked,       \* the getOrCreate calls that invoked initialContentReceiver
    handled,             \* inbound frames handled so far
    ev,                  \* the handler that ran last
    \* One ConnectionKeepAlivePing and the websocket it watches:
    pongReceived,        \* ConnectionKeepAlivePing.pongReceived
    kaSocket,            \* readyState of the watched websocket
    ticks,               \* runs of check() so far
    pingsSent,           \* ping frames check() has sent
    pongsSent,           \* pong frames sent in answer to the peer's pings
    pongs,               \* pong frames that have arrived
    peerPings,           \* ping frames that have arrived
    pingAtLastTick,      \* the last run of check() sent a ping
    pongSinceTick,       \* a pong has arrived since the last run of check()
    kaEv,                \* what the monitor's last handler did
    \* One call of extractNoteIdFromRealtimePath:
    realtimePath,        \* its argument
    extracted            \* what it returned or that it threw

kaVars == <<pongReceived, kaSocket, ticks, pingsSent, pongsSent, pongs, peerPings,
            pingAtLastTick, pongSinceTick, kaEv>>

gatewayVars == <<readyState, pc, reqNote, returned, socketToConnection, connHub,
                 registry, constructed, hubNote, clients, isClosing, docDestroyCalls,
                 awDestroyCalls, doc, awClock, awStates, out, synced, overlapped,
                 loaderInvoked, handled, ev>>

pathVars == <<realtimePath, extracted>>

vars == <<gatewayVars, kaVars, pathVars>>

\* ------------------------------------------------------------------ frames
\* encodeInitialSyncMessage: tag SYNC, then writeSyncStep1 (the state vector).
encodeInitialSyncMessage(yDoc) ==
    [type |-> "SYNC", sub |-> "STEP1", payload |-> yDoc]

\* The answer readSyncMessage writes for a STEP1: writeSyncStep2, the structs
\* of the doc the state vector does not cover.
encodeSyncStep2(yDoc, sv) ==
    [type |-> "SYNC", sub |-> "STEP2", payload |-> yDoc \ sv]

\* encodeSyncMessage: tag SYNC, then writeUpdate (the update, unchanged).
encodeSyncMessage(update) ==
    [type |-> "SYNC", sub |-> "UPDATE", payload |-> update]

\* encodeAwarenessMessage: tag AWARENESS, then the entries of the given ids.
encodeAwarenessMessage(clientIds) ==
    [type |-> "AWARENESS", sub |-> "NONE", payload |-> clientIds]

\* ------------------------------------------------------------------ the hub
\* The part of the state that RealtimeNote, WebsocketConnection and the
\* registry's callback change while one handler runs.  The operations are
\* functions of this record so that they nest as the calls do.
World ==
    [readyState |-> readyState, out |-> out, registry |-> registry,
     clients |-> clients, isClosing |-> isClosing,
     docDestroyCalls |-> docDestroyCalls, awDestroyCalls |-> awDestroyCalls]

\* ws WebSocket.close(): an OPEN socket starts the closing handshake; the
\* 'close' event comes later.  Nothing happens on a socket already closing
\* or closed.
Close(w, s) ==
    IF w.readyState[s] = "OPEN" THEN [w EXCEPT !.readyState[s] = "CLOSING"] ELSE w

\* send without its readyState check.
SendUnguarded(w, s, content, err) ==
    LET w1 == [w EXCEPT !.out[s] = Append(@, content)]
    IN  IF err THEN Close(w1, s) ELSE w1

\* WebsocketConnection.send: nothing unless the socket is OPEN; a write
\* error (err) closes the socket and is swallowed.
Send(w, s, content, err) ==
    IF w.readyState[s] # "OPEN" THEN w
    ELSE LET w1 == [w EXCEPT !.out[s] = Append(@, content)]
         IN  IF err THEN Close(w1, s) ELSE w1

\* The loop with every frame put in front of what the socket was sent before.
SendAllPrepending(w, rcpts, content, failing) ==
    [w EXCEPT
       !.out = [s \in Sockets |->
                  IF s \in rcpts /\ w.readyState[s] = "OPEN"
                  THEN <<content>> \o w.out[s] ELSE w.out[s]],
       !.readyState = [s \in Sockets |->
                  IF s \in rcpts /\ s \in failing /\ w.readyState[s] = "OPEN"
                  THEN "CLOSING" ELSE w.readyState[s]]]

\* The loop that a throwing write ends: the connections after the first
\* failing one (in the order of their sockets) are not sent the frame.
SendAllStopsAtError(w, rcpts, content, failing) ==
    [w EXCEPT
       !.out = [s \in Sockets |->
                  IF /\ s \in rcpts /\ w.readyState[s] = "OPEN"
                     /\ \A r \in rcpts \cap failing : w.readyState[r] = "OPEN" => s <= r
                  THEN Append(w.out[s], content) ELSE w.out[s]],
       !.readyState = w.readyState]

\* getConnections().forEach(client => client.send(content)) over the
\* connections in rcpts; the writes to the sockets in failing throw.
SendAll(w, rcpts, content, failing) ==
    [w EXCEPT
       !.out = [s \in Sockets |->
                  IF s \in rcpts /\ w.readyState[s] = "OPEN"
                  THEN Append(w.out[s], content) ELSE w.out[s]],
       !.readyState = [s \in Sockets |->
                  IF s \in rcpts /\ s \in failing /\ w.readyState[s] = "OPEN"
                  THEN "CLOSING" ELSE w.readyState[s]]]

\* WebsocketAwareness.distributeAwarenessUpdate: to every connection of the
\* hub, the origin included.
distributeAwarenessUpdate(w, h, changed, failing) ==
    SendAll(w, w.clients[h], encodeAwarenessMessage(changed), failing)

\* distributeYDocUpdate without its origin check.
distributeYDocUpdateToAll(w, h, update, origin, failing) ==
    SendAll(w, w.clients[h], encodeSyncMessage(update), failing)

\* WebsocketDoc.distributeYDocUpdate: to every connection of the hub but the
\* origin.
distributeYDocUpdate(w, h, update, origin, failing) ==
    SendAll(w, w.clients[h] \ {origin}, encodeSyncMessage(update), failing)

RECURSIVE DestroyNote(_, _), RemoveClient(_, _, _), DisconnectEach(_, _, _)

\* destroy without its isClosing check.
DestroyNoteUnguarded(w, h) ==
    LET w1 == [w EXCEPT !.isClosing[h] = TRUE]
        w2 == [w1 EXCEPT !.docDestroyCalls[h] = @ + 1]
        w3 == distributeAwarenessUpdate(w2, h, {ServerClientId}, {})
        w4 == [w3 EXCEPT !.awDestroyCalls[h] = @ + 1]
    IN  DisconnectEach(w4, h, w4.clients[h])

\* RealtimeNote.destroy.  websocketDoc.destroy() emits the doc's 'destroy'
\* event and drops the doc's listeners; on that event the awareness clears
\* its local state, which emits one 'update' naming the doc's own client id
\* to distributeAwarenessUpdate, and drops its listeners too.  Then every
\* connection of the set is disconnected.
DestroyNote(w, h) ==
    IF w.isClosing[h] THEN w
    ELSE LET w1 == [w EXCEPT !.isClosing[h] = TRUE]
             w2 == [w1 EXCEPT !.docDestroyCalls[h] = @ + 1]
             w3 == distributeAwarenessUpdate(w2, h, {ServerClientId}, {})
             w4 == [w3 EXCEPT !.awDestroyCalls[h] = @ + 1]
         IN  DisconnectEach(w4, h, w4.clients[h])

\* disconnect that closes the socket and leaves the hub's set alone.
DisconnectCloseOnly(w, h, c) == Close(w, c)

\* WebsocketConnection.disconnect: close the socket, then removeClient on
\* the connection's hub.
Disconnect(w, h, c) == RemoveClient(Close(w, c), h, c)

\* this.clients.forEach(value => value.disconnect()): Set.forEach visits the
\* members still in the set when their turn comes.
DisconnectEach(w, h, todo) ==
    IF todo = {} THEN w
    ELSE LET c == CHOOSE x \in todo : \A y \in todo : x <= y
             w1 == Disconnect(w, h, c)
         IN  DisconnectEach(w1, h, (todo \ {c}) \cap w1.clients[h])

\* The onDestroy callback the registry hands to the hub it constructs.
OnDestroy(w, h) ==
    [DestroyNote(w, h) EXCEPT !.registry[hubNote[h]] = NoHub]

\* removeClient that destroys the hub but does not call onDestroy.
RemoveClientNoCallback(w, h, c) ==
    LET w1 == [w EXCEPT !.clients[h] = @ \ {c}]
    IN  IF w1.clients[h] = {} /\ ~w1.isClosing[h]
        THEN DestroyNote(w1, h)
        ELSE w1

\* removeClient that empties the hub's set.
RemoveClientClearsSet(w, h, c) ==
    LET w1 == [w EXCEPT !.clients[h] = {}]
    IN  IF ~w1.isClosing[h]
        THEN OnDestroy(DestroyNote(w1, h), h)
        ELSE w1

\* RealtimeNote.removeClient.
RemoveClient(w, h, c) ==
    LET w1 == [w EXCEPT !.clients[h] = @ \ {c}]
    IN  IF w1.clients[h] = {} /\ ~w1.isClosing[h]
        THEN OnDestroy(DestroyNote(w1, h), h)
        ELSE w1

\* connectClient that announces the new connection to the hub's connections.
ConnectClientAnnouncing(w, h, c) ==
    distributeAwarenessUpdate([w EXCEPT !.clients[h] = @ \cup {c}], h, {c}, {})

\* RealtimeNote.connectClient.
ConnectClient(w, h, c) == [w EXCEPT !.clients[h] = @ \cup {c}]

\* The state after a handler left the world as w.
Commit(w) ==
    /\ readyState' = w.readyState
    /\ out' = w.out
    /\ registry' = w.registry
    /\ clients' = w.clients
    /\ isClosing' = w.isClosing
    /\ docDestroyCalls' = w.docDestroyCalls
    /\ awDestroyCalls' = w.awDestroyCalls

\* ------------------------------------------------------------------ the CRDT
\* The state vectors a client offers in a STEP1: it knows a prefix of the
\* structs.
StateVectors == {0..(k - 1) : k \in 0..(NumUpdates + 1)}

\* The updates a client sends in a STEP2 or an UPDATE (a STEP2 may carry an
\* empty diff).
Updates == SUBSET UpdateIds

\* Y.applyUpdate: the structs of the update the doc does not hold yet are
\* integrated; they are what the doc's 'update' event carries.
NewStructs(yDoc, update) == update \ yDoc

\* The doc's 'update' listener (distributeYDocUpdate) is registered by the
\* WebsocketDoc constructor and dropped by the doc's destroy().
DocObserved(w, h) == w.docDestroyCalls[h] = 0

\* The awareness 'update' listener (distributeAwarenessUpdate) is registered
\* by the WebsocketAwareness constructor and dropped when the awareness is
\* destroyed, which the doc's destroy() brings about.
AwarenessObserved(w, h) == w.docDestroyCalls[h] = 0 /\ w.awDestroyCalls[h] = 0

\* applyAwarenessUpdate for one entry (clientID, clock, state): whether the
\* entry is newer than what the awareness holds.
AwarenessAccepts(h, cid, clock, present) ==
    LET currClock == IF awClock[h][cid] = -1 THEN 0 ELSE awClock[h][cid]
    IN  \/ currClock < clock
        \/ currClock = clock /\ ~present /\ cid \in awStates[h]

\* applyAwarenessUpdate: whether an accepted entry lands in added, updated
\* or removed, so that the 'update' event is emitted.
AwarenessChanged(h, cid, present) ==
    \/ present
    \/ awClock[h][cid] # -1

\* ------------------------------------------------------------------ admission
\* The request's cookies: no cookie header, a header without the session
\* cookie, the session cookie with an empty value, a session cookie.
CookieCases == {"noHeader", "noSessionCookie", "emptySessionCookie", "ok"}
LookupOutcomes == {"sessionFail", "userFail", "pathFail", "noteFail", "denied", "ok"}

\* What the last handler was, as far as the state does not tell: a frame
\* handled for the connection of socket s ("message"), a 'close' or 'error'
\* event ("disconnect"), destroy() called on hub s from outside ("destroy"),
\* and how handleConnection ended for socket s: at a cookie check
\* ("noCookie"), at the mayRead check ("denied"), in the catch block after a
\* lookup ("failed") or the loader ("loaderFailed") threw, at the readyState
\* check ("notOpen"), or with the connection registered ("admitted"); and
\* what became of a frame that reached no handler of the hub: the gateway's
\* handler threw and the adapter caught it ("threw"), the hub ignored the
\* frame ("ignored"), the adapter found no handler for the tag
\* ("noHandler"), the adapter threw while it read the tag ("escaped").
Event(op, s) == [op |-> op, s |-> s]

\* The lookups that throw into the catch block of handleConnection.
LookupThrows(outcome) ==
    outcome \in {"sessionFail", "userFail", "pathFail", "noteFail"}

\* mayRead without the check: every user may read.
mayReadAlways(outcome) == TRUE

\* permissionsService.mayRead(user, note) as handleConnection tests it.
mayRead(outcome) == outcome # "denied"

\* getOrCreateRealtimeNote that finds no hub, whatever the map holds.
RegisteredNoteNever(noteId) == NoHub

\* this.noteIdToRealtimeNote.get(noteId) in getOrCreateRealtimeNote.
RegisteredNote(noteId) == registry[noteId]

\* How handleConnection ends for socket s once getOrCreateRealtimeNote has
\* returned.
AdmissionEnd(s) ==
    IF readyState[s] = "OPEN" THEN Event("admitted", s) ELSE Event("notOpen", s)

\* The WebsocketConnection constructor with sendAwarenessState before
\* sendInitialSync.
FinishAdmissionAwarenessFirst(w, s, h, yDoc, err1, err2) ==
    IF w.readyState[s] # "OPEN"
    THEN /\ Commit(Close(w, s))
         /\ UNCHANGED <<connHub, socketToConnection>>
    ELSE LET w1 == Send(w, s, encodeAwarenessMessage(awStates[h]), err1)
             w2 == Send(w1, s, encodeInitialSyncMessage(yDoc), err2)
         IN  /\ connHub' = [connHub EXCEPT ![s] = h]
             /\ socketToConnection' = socketToConnection \cup {s}
             /\ Commit(ConnectClient(w2, h, s))

\* handleConnection without its readyState check.
FinishAdmissionUnchecked(w, s, h, yDoc, err1, err2) ==
    LET w1 == Send(w, s, encodeInitialSyncMessage(yDoc), err1)
        w2 == Send(w1, s, encodeAwarenessMessage(awStates[h]), err2)
    IN  /\ connHub' = [connHub EXCEPT ![s] = h]
        /\ socketToConnection' = socketToConnection \cup {s}
        /\ Commit(ConnectClient(w2, h, s))

\* WebsocketGateway.handleConnection from line 133 on, with the hub that
\* getOrCreateRealtimeNote returned: the readyState check, the construction
\* of the WebsocketConnection (sendInitialSync, sendAwarenessState), the
\* entry in socketToConnection and connectClient.
FinishAdmission(w, s, h, yDoc, err1, err2) ==
    IF w.readyState[s] # "OPEN"
    THEN /\ Commit(Close(w, s))
         /\ UNCHANGED <<connHub, socketToConnection>>
    ELSE LET w1 == Send(w, s, encodeInitialSyncMessage(yDoc), err1)
             w2 == Send(w1, s, encodeAwarenessMessage(awStates[h]), err2)
         IN  /\ connHub' = [connHub EXCEPT ![s] = h]
             /\ socketToConnection' = socketToConnection \cup {s}
             /\ Commit(ConnectClient(w2, h, s))

\* A client connects: handleConnection up to its first await.  Sockets are
\* numbered in the order they connect.
Connect(s, n, cookie) ==
    /\ UNCHANGED <<kaVars, pathVars>>
    /\ pc[s] = "idle"
    /\ \A t \in Sockets : t < s => pc[t] # "idle"
    /\ reqNote' = [reqNote EXCEPT ![s] = n]
    /\ IF cookie = "ok"
       THEN /\ readyState' = [readyState EXCEPT ![s] = "OPEN"]
            /\ pc' = [pc EXCEPT ![s] = "lookup"]
       ELSE /\ readyState' = [readyState EXCEPT ![s] = "CLOSING"]
            /\ pc' = [pc EXCEPT ![s] = "done"]
    /\ ev' = IF cookie = "ok" THEN Event("none", 0) ELSE Event("noCookie", s)
    /\ UNCHANGED <<returned, socketToConnection, connHub, registry, constructed,
                   hubNote, clients, isClosing, docDestroyCalls, awDestroyCalls,
                   doc, awClock, awStates, out, synced, overlapped, loaderInvoked, handled>>

\* The session, user, note and permission lookups have answered.  On
\* success the handler calls getOrCreateRealtimeNote: a registered hub is
\* returned, otherwise the call awaits the initial content.
LookupsDone(s, outcome, err1, err2) ==
    /\ UNCHANGED <<kaVars, pathVars>>
    /\ pc[s] = "lookup"
    /\ UNCHANGED <<reqNote, constructed, hubNote, doc, awClock, awStates,
                   synced, handled>>
    /\ IF LookupThrows(outcome) \/ ~mayRead(outcome)
       THEN /\ Commit(Close(World, s))
            /\ pc' = [pc EXCEPT ![s] = "done"]
            /\ ev' = Event(IF LookupThrows(outcome) THEN "failed" ELSE "denied", s)
            /\ UNCHANGED <<returned, socketToConnection, connHub, overlapped,
                           loaderInvoked>>
       ELSE LET realtimeNote == RegisteredNote(reqNote[s])
            IN  IF realtimeNote # NoHub
                THEN /\ returned' = [returned EXCEPT ![s] = realtimeNote]
                     /\ pc' = [pc EXCEPT ![s] = "done"]
                     /\ FinishAdmission(World, s, realtimeNote, doc[realtimeNote],
                                        err1, err2)
                     /\ ev' = IF outcome = "denied" THEN Event("denied", s)
                              ELSE AdmissionEnd(s)
                     /\ UNCHANGED <<overlapped, loaderInvoked>>
                ELSE /\ pc' = [pc EXCEPT ![s] = "load"]
                     /\ overlapped' = [overlapped EXCEPT ![s] =
                            {t \in Sockets : pc[t] = "load" /\ reqNote[t] = reqNote[s]}]
                     /\ loaderInvoked' = loaderInvoked \cup {s}
                     /\ ev' = IF outcome = "denied" THEN Event("denied", s)
                              ELSE Event("none", 0)
                     /\ UNCHANGED <<readyState, out, registry, clients, isClosing,
                                    docDestroyCalls, awDestroyCalls, returned,
                                    socketToConnection, connHub>>

\* initialContentReceiver has answered: the hub is constructed and
\* registered, getOrCreateRealtimeNote returns it and handleConnection goes
\* on.
LoaderReturns(s, err1, err2) ==
    /\ UNCHANGED <<kaVars, pathVars>>
    /\ pc[s] = "load"
    /\ pc' = [pc EXCEPT ![s] = "done"]
    /\ constructed' = constructed \cup {s}
    /\ hubNote' = [hubNote EXCEPT ![s] = reqNote[s]]
    /\ doc' = [doc EXCEPT ![s] = {InitialStruct}]
    /\ returned' = [returned EXCEPT ![s] = s]
    /\ FinishAdmission([World EXCEPT !.registry[reqNote[s]] = s], s, s,
                       {InitialStruct}, err1, err2)
    /\ ev' = AdmissionEnd(s)
    /\ UNCHANGED <<reqNote, awClock, awStates, synced, overlapped, loaderInvoked, handled>>

\* initialContentReceiver has thrown: the catch block closes the socket.
LoaderFails(s) ==
    /\ UNCHANGED <<kaVars, pathVars>>
    /\ pc[s] = "load"
    /\ pc' = [pc EXCEPT ![s] = "done"]
    /\ Commit(Close(World, s))
    /\ ev' = Event("loaderFailed", s)
    /\ UNCHANGED <<reqNote, returned, socketToConnection, connHub, constructed,
                   hubNote, doc, awClock, awStates, synced, overlapped, loaderInvoked, handled>>

\* ------------------------------------------------------------------ messages
\* A frame can arrive on a socket until its 'close' event.
Receives(s) ==
    /\ readyState[s] \in {"OPEN", "CLOSING"}
    /\ handled < MaxFrames

\* WebsocketGateway.handleMessage*: the socket's connection, or an Error
\* that BinaryWebsocketAdapter.handleIncomingMessage catches and logs.
Known(s) == s \in socketToConnection

\* processIncomingSyncMessage that answers every sub-frame with a STEP2.
processIncomingSyncMessageAnswersAll(w, h, s, sub, payload, failing) ==
    LET w1 == IF sub # "STEP1" /\ NewStructs(doc[h], payload) # {} /\ DocObserved(w, h)
              THEN distributeYDocUpdate(w, h, NewStructs(doc[h], payload), s, failing)
              ELSE w
    IN  Send(w1, s, encodeSyncStep2(doc[h], IF sub = "STEP1" THEN payload ELSE {}),
             s \in failing)

\* WebsocketDoc.processIncomingSyncMessage on the hub of connection s.
\* A STEP1 is answered with a STEP2 to s alone; a STEP2 or an UPDATE is
\* applied to the doc with s as the transaction origin, and the doc's
\* 'update' event, if any listener is left, goes to distributeYDocUpdate.
processIncomingSyncMessage(w, h, s, sub, payload, failing) ==
    IF sub = "STEP1"
    THEN Send(w, s, encodeSyncStep2(doc[h], payload), s \in failing)
    ELSE IF NewStructs(doc[h], payload) # {} /\ DocObserved(w, h)
         THEN distributeYDocUpdate(w, h, NewStructs(doc[h], payload), s, failing)
         ELSE w

\* The catch block that closes the socket of the frame.
CatchAndClose(w, s) == Close(w, s)

\* BinaryWebsocketAdapter.handleIncomingMessage, its catch block: what the
\* handler threw is logged.
CatchAndLog(w, s) == w

\* A frame of another type that is sent back to its origin.
handleOtherMessageEcho(w, h, s) ==
    Send(w, s, [type |-> "HEDGEDOC", sub |-> "NONE", payload |-> {}], FALSE)

\* RealtimeNote.handleIncomingMessage for a type other than SYNC and
\* AWARENESS: HEDGEDOC is logged, any other type matches no case.
handleOtherMessage(w, h, s) == w

\* A SYNC frame arrives on socket s.
HandleSync(s, sub, payload, failing) ==
    /\ UNCHANGED <<kaVars, pathVars>>
    /\ Receives(s)
    /\ handled' = handled + 1
    /\ UNCHANGED <<pc, reqNote, returned, socketToConnection, connHub, constructed,
                   hubNote, awClock, awStates, overlapped, loaderInvoked>>
    /\ IF Known(s)
       THEN LET h == connHub[s]
            IN  /\ Commit(processIncomingSyncMessage(World, h, s, sub, payload, failing))
                /\ doc' = [doc EXCEPT ![h] =
                             IF sub = "STEP1" THEN @ ELSE @ \cup payload]
                /\ synced' = [synced EXCEPT ![s] = @ \/ sub = "STEP2"]
                /\ ev' = Event("message", s)
       ELSE /\ Commit(CatchAndLog(World, s))
            /\ ev' = Event("threw", s)
            /\ UNCHANGED <<doc, synced>>

\* An AWARENESS frame arrives on socket s, with one entry (cid, clock,
\* state): WebsocketAwareness.processIncomingAwarenessMessage.
HandleAwareness(s, cid, clock, present, failing) ==
    /\ UNCHANGED <<kaVars, pathVars>>
    /\ Receives(s)
    /\ handled' = handled + 1
    /\ UNCHANGED <<pc, reqNote, returned, socketToConnection, connHub, constructed,
                   hubNote, doc, synced, overlapped, loaderInvoked>>
    /\ IF ~Known(s)
       THEN /\ Commit(CatchAndLog(World, s))
            /\ ev' = Event("threw", s)
            /\ UNCHANGED <<awClock, awStates>>
       ELSE /\ ev' = Event("message", s)
            /\ IF AwarenessAccepts(connHub[s], cid, clock, present)
               THEN LET h == connHub[s]
                    IN  /\ awClock' = [awClock EXCEPT ![h][cid] = clock]
                        /\ awStates' = [awStates EXCEPT ![h] =
                                          IF present THEN @ \cup {cid} ELSE @ \ {cid}]
                        /\ IF /\ AwarenessChanged(h, cid, present)
                              /\ AwarenessObserved(World, h)
                           THEN Commit(distributeAwarenessUpdate(World, h, {cid}, failing))
                           ELSE Commit(World)
               ELSE /\ Commit(World)
                    /\ UNCHANGED <<awClock, awStates>>

\* A SYNC or AWARENESS frame arrives on socket s whose body does not decode:
\* readSyncMessage or applyAwarenessUpdate throws at the first field it
\* reads, before it has changed the doc or the awareness.
HandleUndecodable(s) ==
    /\ UNCHANGED <<kaVars, pathVars>>
    /\ Receives(s)
    /\ handled' = handled + 1
    /\ ev' = Event("threw", s)
    /\ Commit(CatchAndLog(World, s))
    /\ UNCHANGED <<pc, reqNote, returned, socketToConnection, connHub, constructed,
                   hubNote, doc, awClock, awStates, synced, overlapped,
                   loaderInvoked>>

\* A HEDGEDOC frame arrives on socket s: RealtimeNote.handleIncomingMessage
\* logs it.
HandleHedgeDoc(s) ==
    /\ UNCHANGED <<kaVars, pathVars>>
    /\ Receives(s)
    /\ handled' = handled + 1
    /\ IF Known(s)
       THEN /\ Commit(handleOtherMessage(World, connHub[s], s))
            /\ ev' = Event("ignored", s)
       ELSE /\ Commit(CatchAndLog(World, s))
            /\ ev' = Event("threw", s)
    /\ UNCHANGED <<pc, reqNote, returned, socketToConnection, connHub, constructed,
                   hubNote, doc, awClock, awStates, synced, overlapped,
                   loaderInvoked>>

\* A frame with a tag no handler is registered for: the adapter logs it.
HandleUnknown(s) ==
    /\ UNCHANGED <<kaVars, pathVars>>
    /\ Receives(s)
    /\ handled' = handled + 1
    /\ ev' = Event("noHandler", s)
    /\ Commit(World)
    /\ UNCHANGED <<pc, reqNote, returned, socketToConnection, connHub, constructed,
                   hubNote, doc, awClock, awStates, synced, overlapped,
                   loaderInvoked>>

\* A frame with no byte arrives on socket s: decoding.readVarUint throws
\* where the adapter reads the tag, outside its try block, so the error
\* leaves the socket's 'message' listener.  What the process does with it is
\* not the adapter's doing; the gateway's state is as it was.
HandleEmpty(s) ==
    /\ UNCHANGED <<kaVars, pathVars>>
    /\ Receives(s)
    /\ handled' = handled + 1
    /\ ev' = Event("escaped", s)
    /\ Commit(World)
    /\ UNCHANGED <<pc, reqNote, returned, socketToConnection, connHub, constructed,
                   hubNote, doc, awClock, awStates, synced, overlapped,
                   loaderInvoked>>

\* ------------------------------------------------------------------ transport
\* The socket's 'error' event (ws has begun to close the socket): the
\* connection's handler disconnects.
SocketError(s) ==
    /\ UNCHANGED <<kaVars, pathVars>>
    /\ readyState[s] = "OPEN"
    /\ connHub[s] # NoHub
    /\ Commit(Disconnect(Close(World, s), connHub[s], s))
    /\ ev' = Event("disconnect", 0)
    /\ UNCHANGED <<pc, reqNote, returned, socketToConnection, connHub, constructed,
                   hubNote, doc, awClock, awStates, synced, overlapped, loaderInvoked, handled>>

\* The 'close' event with a handleDisconnect that keeps the socket's entry.
SocketCloseKeepsEntry(s) ==
    /\ UNCHANGED <<kaVars, pathVars>>
    /\ readyState[s] \in {"OPEN", "CLOSING"}
    /\ LET w == [World EXCEPT !.readyState[s] = "CLOSED"]
       IN  IF connHub[s] # NoHub
           THEN Commit(Disconnect(w, connHub[s], s))
           ELSE Commit(w)
    /\ ev' = Event("disconnect", 0)
    /\ UNCHANGED <<pc, reqNote, returned, socketToConnection, connHub, constructed,
                   hubNote, doc, awClock, awStates, synced, overlapped,
                   loaderInvoked, handled>>

\* The socket's 'close' event: the connection's handler disconnects, and
\* WebsocketGateway.handleDisconnect drops the socket's entry.
SocketClose(s) ==
    /\ UNCHANGED <<kaVars, pathVars>>
    /\ readyState[s] \in {"OPEN", "CLOSING"}
    /\ LET w == [World EXCEPT !.readyState[s] = "CLOSED"]
       IN  IF connHub[s] # NoHub
           THEN Commit(Disconnect(w, connHub[s], s))
           ELSE Commit(w)
    /\ socketToConnection' = socketToConnection \ {s}
    /\ ev' = Event("disconnect", 0)
    /\ UNCHANGED <<pc, reqNote, returned, connHub, constructed, hubNote, doc,
                   awClock, awStates, synced, overlapped, loaderInvoked, handled>>

\* RealtimeNote.destroy called on a hub from outside.
Destroy(h) ==
    /\ UNCHANGED <<kaVars, pathVars>>
    /\ h \in constructed
    /\ Commit(DestroyNote(World, h))
    /\ ev' = Event("destroy", h)
    /\ UNCHANGED <<pc, reqNote, returned, socketToConnection, connHub, constructed,
                   hubNote, doc, awClock, awStates, synced, overlapped, loaderInvoked, handled>>

\* ------------------------------------------------------------------ keep-alive
\* ConnectionKeepAlivePing, taken by itself: one monitor, the websocket it
\* was constructed for, and a peer that sends pong and ping frames when it
\* likes.  The gateway's state stands still.

\* ConnectionKeepAlivePing.startTimer: the value it gives pongReceived.
startTimer == FALSE

\* check() that pings without clearing pongReceived.
checkKeepsFlag(pingThrows) ==
    /\ pongReceived' = pongReceived
    /\ IF pongReceived
       THEN IF kaSocket = "OPEN" /\ ~pingThrows
            THEN /\ pingsSent' = pingsSent + 1
                 /\ kaSocket' = kaSocket
                 /\ pingAtLastTick' = TRUE
                 /\ kaEv' = "ping"
            ELSE /\ pingsSent' = pingsSent
                 /\ kaSocket' = IF kaSocket = "OPEN" THEN "CLOSING" ELSE kaSocket
                 /\ pingAtLastTick' = FALSE
                 /\ kaEv' = "pingError"
       ELSE /\ pingsSent' = pingsSent
            /\ kaSocket' = IF kaSocket = "OPEN" THEN "CLOSING" ELSE kaSocket
            /\ pingAtLastTick' = FALSE
            /\ kaEv' = "noPong"

\* ConnectionKeepAlivePing.check.  With pongReceived set it clears the flag
\* and pings; a ping that cannot be written (it throws, or the socket is
\* no longer OPEN) leaves the socket closing.  Without it the socket is
\* closed.
check(pingThrows) ==
    /\ pongReceived' = FALSE
    /\ IF pongReceived
       THEN IF kaSocket = "OPEN" /\ ~pingThrows
            THEN /\ pingsSent' = pingsSent + 1
                 /\ kaSocket' = kaSocket
                 /\ pingAtLastTick' = TRUE
                 /\ kaEv' = "ping"
            ELSE /\ pingsSent' = pingsSent
                 /\ kaSocket' = IF kaSocket = "OPEN" THEN "CLOSING" ELSE kaSocket
                 /\ pingAtLastTick' = FALSE
                 /\ kaEv' = "pingError"
       ELSE /\ pingsSent' = pingsSent
            /\ kaSocket' = IF kaSocket = "OPEN" THEN "CLOSING" ELSE kaSocket
            /\ pingAtLastTick' = FALSE
            /\ kaEv' = "noPong"

\* The interval that the socket's 'close' event does not clear.
TickNeverCancelled(pingThrows) ==
    /\ ticks < MaxTicks
    /\ ticks' = ticks + 1
    /\ check(pingThrows)
    /\ pongSinceTick' = FALSE
    /\ UNCHANGED <<pongsSent, pongs, peerPings>>
    /\ UNCHANGED <<gatewayVars, pathVars>>

\* The interval fires (it does until the socket's 'close' event clears it).
Tick(pingThrows) ==
    /\ kaSocket # "CLOSED"
    /\ ticks < MaxTicks
    /\ ticks' = ticks + 1
    /\ check(pingThrows)
    /\ pongSinceTick' = FALSE
    /\ UNCHANGED <<pongsSent, pongs, peerPings>>
    /\ UNCHANGED <<gatewayVars, pathVars>>

\* The socket's 'pong' event.
PongArrives ==
    /\ kaSocket # "CLOSED"
    /\ pongs < MaxPongs
    /\ pongs' = pongs + 1
    /\ pongReceived' = TRUE
    /\ pongSinceTick' = TRUE
    /\ kaEv' = "pong"
    /\ UNCHANGED <<kaSocket, ticks, pingsSent, pongsSent, peerPings, pingAtLastTick>>
    /\ UNCHANGED <<gatewayVars, pathVars>>

\* The socket's 'ping' event: the handler answers with websocket.pong(),
\* which goes out while the socket is OPEN.
PingArrives ==
    /\ kaSocket # "CLOSED"
    /\ peerPings < MaxPeerPings
    /\ peerPings' = peerPings + 1
    /\ pongsSent' = IF kaSocket = "OPEN" THEN pongsSent + 1 ELSE pongsSent
    /\ kaEv' = "peerPing"
    /\ UNCHANGED <<pongReceived, kaSocket, ticks, pingsSent, pongs, pingAtLastTick,
                   pongSinceTick>>
    /\ UNCHANGED <<gatewayVars, pathVars>>

\* The socket's 'close' event: the handler clears the interval.
KeepAliveClose ==
    /\ kaSocket # "CLOSED"
    /\ kaSocket' = "CLOSED"
    /\ kaEv' = "close"
    /\ UNCHANGED <<pongReceived, ticks, pingsSent, pongsSent, pongs, peerPings,
                   pingAtLastTick, pongSinceTick>>
    /\ UNCHANGED <<gatewayVars, pathVars>>

\* ------------------------------------------------------------------ request path
\* extractNoteIdFromRealtimePath, taken by itself.  A path is a sequence of
\* pieces of text; the two pieces of PathPrefix together are the text
\* '/realtime/?noteId=' that REALTIME_PATH_REGEX begins with.
LineFeed == "\n"
PathPieces == {"/realtime/", "?noteId=", "/other", "a", "b", LineFeed}
PathPrefix == <<"/realtime/", "?noteId=">>

\* The arguments: undefined, or a string of up to MaxPathLen pieces.
Undefined == [defined |-> FALSE, text |-> <<>>]
PathInputs ==
    {Undefined} \cup
    {[defined |-> TRUE, text |-> p] :
        p \in UNION {[1..n -> PathPieces] : n \in 0..MaxPathLen}}

\* The results: the call has not run, it threw, it returned an id.
NotRun == [ran |-> FALSE, ok |-> FALSE, id |-> <<>>]
Thrown == [ran |-> TRUE, ok |-> FALSE, id |-> <<>>]
Returned(id) == [ran |-> TRUE, ok |-> TRUE, id |-> id]

\* The function with (.*) for the id: an empty id matches.
extractNoteIdAllowsEmpty(path) ==
    IF ~path.defined \/ path.text = <<>> THEN Thrown
    ELSE IF /\ Len(path.text) >= 2
            /\ SubSeq(path.text, 1, 2) = PathPrefix
            /\ \A i \in 3..Len(path.text) : path.text[i] # LineFeed
         THEN Returned(SubSeq(path.text, 3, Len(path.text)))
         ELSE Thrown

\* extractNoteIdFromRealtimePath.  /^\/realtime\/\?noteId=(.+)$/ matches a
\* string that is the prefix and then one character or more, none of them
\* a line terminator ('.' matches none, and '$' without the m flag matches
\* at the end of the string only).
extractNoteIdFromRealtimePath(path) ==
    IF ~path.defined \/ path.text = <<>> THEN Thrown
    ELSE IF /\ Len(path.text) > 2
            /\ SubSeq(path.text, 1, 2) = PathPrefix
            /\ \A i \in 3..Len(path.text) : path.text[i] # LineFeed
         THEN Returned(SubSeq(path.text, 3, Len(path.text)))
         ELSE Thrown

\* The call.
Extract ==
    /\ ~extracted.ran
    /\ extracted' = extractNoteIdFromRealtimePath(realtimePath)
    /\ UNCHANGED <<realtimePath, gatewayVars, kaVars>>

\* ------------------------------------------------------------------ system
\* The gateway, the registry and the sockets at the start.
GatewayInit ==
    /\ readyState = [s \in Sockets |-> "NONE"]
    /\ pc = [s \in Sockets |-> "idle"]
    /\ reqNote = [s \in Sockets |-> 0]
    /\ returned = [s \in Sockets |-> NoHub]
    /\ socketToConnection = {}
    /\ connHub = [s \in Sockets |-> NoHub]
    /\ registry = [n \in Notes |-> NoHub]
    /\ constructed = {}
    /\ hubNote = [h \in Hubs |-> 0]
    /\ clients = [h \in Hubs |-> {}]
    /\ isClosing = [h \in Hubs |-> FALSE]
    /\ docDestroyCalls = [h \in Hubs |-> 0]
    /\ awDestroyCalls = [h \in Hubs |-> 0]
    /\ doc = [h \in Hubs |-> {}]
    /\ awClock = [h \in Hubs |-> [c \in ClientIds |-> -1]]
    /\ awStates = [h \in Hubs |-> {}]
    /\ out = [s \in Sockets |-> <<>>]
    /\ synced = [s \in Sockets |-> FALSE]
    /\ overlapped = [s \in Sockets |-> {}]
    /\ loaderInvoked = {}
    /\ handled = 0
    /\ ev = Event("none", 0)

\* The monitor after its construction.
KeepAliveInit ==
    /\ pongReceived = startTimer
    /\ kaSocket = "OPEN"
    /\ ticks = 0
    /\ pingsSent = 0
    /\ pongsSent = 0
    /\ pongs = 0
    /\ peerPings = 0
    /\ pingAtLastTick = FALSE
    /\ pongSinceTick = FALSE
    /\ kaEv = "start"

Init ==
    /\ GatewayInit
    /\ KeepAliveInit
    /\ realtimePath = Undefined
    /\ extracted = NotRun

\* Any argument, the function not yet called.
PathInit ==
    /\ GatewayInit
    /\ KeepAliveInit
    /\ realtimePath \in PathInputs
    /\ extracted = NotRun

\* The sockets a broadcast of hub h may fail to write to.
Writable(h) ==
    IF h = NoHub THEN {} ELSE {r \in clients[h] : readyState[r] = "OPEN"}

Next ==
    \/ \E s \in Sockets, n \in Notes, cookie \in CookieCases : Connect(s, n, cookie)
    \/ \E s \in Sockets, outcome \in LookupOutcomes, err1, err2 \in BOOLEAN :
          LookupsDone(s, outcome, err1, err2)
    \/ \E s \in Sockets, err1, err2 \in BOOLEAN : LoaderReturns(s, err1, err2)
    \/ \E s \in Sockets : LoaderFails(s)
    \/ \E s \in Sockets, payload \in StateVectors, err \in BOOLEAN :
          HandleSync(s, "STEP1", payload, IF err THEN {s} ELSE {})
    \/ \E s \in Sockets, sub \in {"STEP2", "UPDATE"}, payload \in Updates :
          \E failing \in SUBSET Writable(connHub[s]) :
             HandleSync(s, sub, payload, failing \ {s})
    \/ \E s \in Sockets, clock \in 0..MaxClock, present \in BOOLEAN :
          \E failing \in SUBSET Writable(connHub[s]) :
             HandleAwareness(s, s, clock, present, failing)
    \/ \E s \in Sockets : HandleUndecodable(s)
    \/ \E s \in Sockets : HandleHedgeDoc(s)
    \/ \E s \in Sockets : HandleUnknown(s)
    \/ \E s \in Sockets : HandleEmpty(s)
    \/ \E s \in Sockets : SocketError(s)
    \/ \E s \in Sockets : SocketClose(s)
    \/ \E h \in Hubs : Destroy(h)

Spec == Init /\ [][Next]_vars

KeepAliveNext ==
    \/ \E pingThrows \in BOOLEAN : Tick(pingThrows)
    \/ PongArrives
    \/ PingArrives
    \/ KeepAliveClose

KeepAliveSpec == Init /\ [][KeepAliveNext]_vars

PathNext == Extract

PathSpec == PathInit /\ [][PathNext]_vars

Frames ==
    [type : {"SYNC", "AWARENESS"}, sub : {"STEP1", "STEP2", "UPDATE", "NONE"},
     payload : SUBSET (Structs \cup ClientIds)]

TypeOK ==
    /\ readyState \in [Sockets -> {"NONE", "OPEN", "CLOSING", "CLOSED"}]
    /\ pc \in [Sockets -> {"idle", "lookup", "load", "done"}]
    /\ reqNote \in [Sockets -> Notes \cup {0}]
    /\ returned \in [Sockets -> Hubs \cup {NoHub}]
    /\ socketToConnection \subseteq Sockets
    /\ connHub \in [Sockets -> Hubs \cup {NoHub}]
    /\ registry \in [Notes -> Hubs \cup {NoHub}]
    /\ constructed \subseteq Hubs
    /\ hubNote \in [Hubs -> Notes \cup {0}]
    /\ clients \in [Hubs -> SUBSET Sockets]
    /\ isClosing \in [Hubs -> BOOLEAN]
    /\ docDestroyCalls \in [Hubs -> Nat]
    /\ awDestroyCalls \in [Hubs -> Nat]
    /\ doc \in [Hubs -> SUBSET Structs]
    /\ awClock \in [Hubs -> [ClientIds -> -1..MaxClock]]
    /\ awStates \in [Hubs -> SUBSET ClientIds]
    /\ \A s \in Sockets : \A i \in 1..Len(out[s]) : out[s][i] \in Frames
    /\ synced \in [Sockets -> BOOLEAN]
    /\ overlapped \in [Sockets -> SUBSET Sockets]
    /\ loaderInvoked \subseteq Sockets
    /\ handled \in 0..MaxFrames
    /\ pongReceived \in BOOLEAN
    /\ kaSocket \in {"OPEN", "CLOSING", "CLOSED"}
    /\ ticks \in 0..MaxTicks
    /\ pingsSent \in 0..MaxTicks
    /\ pongsSent \in 0..MaxPeerPings
    /\ pongs \in 0..MaxPongs
    /\ peerPings \in 0..MaxPeerPings
    /\ pingAtLastTick \in BOOLEAN
    /\ pongSinceTick \in BOOLEAN
    /\ kaEv \in {"start", "ping", "pingError", "noPong", "pong", "peerPing", "close"}

\* ------------------------------------------------------------------ claims
\* The frames handed to socket s's send in the step.
SentNow(s) == {out'[s][i] : i \in (Len(out[s]) + 1)..Len(out'[s])}

IsUpdate(f) == f.type = "SYNC" /\ f.sub = "UPDATE"
IsBroadcast(f) == IsUpdate(f) \/ f.type = "AWARENESS"

\* C1: getOrCreateRealtimeNote calls for one note id that overlap while no
\* hub is registered for it invoke the loader once in total, construct one
\* RealtimeNote and all return that hub.
C1_CoalescedCreation ==
    \A s \in Sockets : \A t \in overlapped[s] :
        /\ ~(s \in loaderInvoked /\ t \in loaderInvoked)
        /\ ~(s \in constructed /\ t \in constructed)
        /\ (returned[s] # NoHub /\ returned[t] # NoHub) => returned[s] = returned[t]

\* C2: every connection in the set of a hub of a note is in the hub the
\* registry maps the note to (the registry, a map, holds at most one hub
\* per note).
C2_OneHubPerNote ==
    \A h \in constructed : \A c \in clients[h] : registry[hubNote[h]] = h

\* C3: when removeClient (run by a 'close' or 'error' event) removes the
\* last connection of a hub that is not closing, then in the state it
\* leaves the hub is closing, its doc and awareness are destroyed and the
\* registry has no entry for the hub's note; so it is after the second of
\* two clients has disconnected.
C3_LastLeaverTeardown ==
    [][\A h \in Hubs :
          (ev'.op = "disconnect" /\ ~isClosing[h] /\ clients[h] # {} /\ clients'[h] = {})
          => /\ isClosing'[h]
             /\ docDestroyCalls'[h] = 1
             /\ awDestroyCalls'[h] = 1
             /\ registry'[hubNote[h]] = NoHub]_vars

\* Both clients of a hub have disconnected and the registry maps nothing.
C3_Witness ==
    \E h \in constructed :
        /\ ev.op = "disconnect"
        /\ Cardinality({s \in Sockets : connHub[s] = h}) = 2
        /\ clients[h] = {}
        /\ isClosing[h]
        /\ docDestroyCalls[h] = 1
        /\ registry[hubNote[h]] = NoHub

C5_EmptyAfterDestroy ==
    \A h \in constructed : isClosing[h] => clients[h] = {}

\* C6: a hub whose closing flag is set sends no SYNC-UPDATE and no
\* AWARENESS broadcast to its connections, the steps of destroy() after the
\* flag is set included.
C6_NoBroadcastWhenClosing ==
    [][\A s \in Sockets :
          (connHub[s] # NoHub /\ isClosing'[connHub[s]])
          => \A f \in SentNow(s) : ~IsBroadcast(f)]_vars

\* C7: no connection is added to the set of a hub whose closing flag is set.
C7_NoJoinWhenClosing ==
    [][\A h \in Hubs : isClosing[h] => clients'[h] \subseteq clients[h]]_vars

\* C8: when the hub applies an update from origin s that changes its doc,
\* every connection of the set that is synced, is not s and has an OPEN
\* socket is sent one SYNC-UPDATE frame carrying the update.
C8_UpdateFanOut ==
    [][\A s, r \in Sockets :
          (/\ ev'.op = "message" /\ ev'.s = s
           /\ connHub[s] # NoHub
           /\ doc'[connHub[s]] # doc[connHub[s]]
           /\ r \in clients[connHub[s]] /\ r # s
           /\ synced[r] /\ readyState[r] = "OPEN")
          => out'[r] = Append(out[r],
                 encodeSyncMessage(doc'[connHub[s]] \ doc[connHub[s]]))]_vars

\* C9: no SYNC-UPDATE frame is sent to the connection whose frame was
\* handled in the step, the origin of any update the step applied.
C9_EchoSuppression ==
    [][\A s \in Sockets :
          (ev'.op = "message" /\ ev'.s = s) => \A f \in SentNow(s) : ~IsUpdate(f)]_vars

\* The first frame handled was an update from s; the other connection got
\* it as its third frame (after STEP1 and the awareness state), s did not.
C9_Witness ==
    \E s, r \in Sockets :
        /\ s # r
        /\ handled = 1
        /\ ev = Event("message", s)
        /\ Len(out[r]) = 3 /\ IsUpdate(out[r][3])
        /\ Len(out[s]) = 2

\* C10: a SYNC-UPDATE frame is sent only to connections that have
\* completed their initial sync.
C10_UpdatesOnlyToSynced ==
    [][\A r \in Sockets : \A f \in SentNow(r) : IsUpdate(f) => synced[r]]_vars

\* C11: when a frame from connection s changes the hub's awareness (an id
\* is added, updated or removed), every connection of the hub's set with an
\* OPEN socket, s included, is sent one AWARENESS frame covering the changed
\* ids.
C11_AwarenessFanOut ==
    [][\A s, r \in Sockets :
          (/\ ev'.op = "message" /\ ev'.s = s
           /\ connHub[s] # NoHub
           /\ awClock'[connHub[s]][s] # awClock[connHub[s]][s]
           /\ (s \in awStates'[connHub[s]] \/ awClock[connHub[s]][s] # -1)
           /\ r \in clients[connHub[s]]
           /\ readyState[r] = "OPEN")
          => out'[r] = Append(out[r], encodeAwarenessMessage({s}))]_vars

\* C12: the frames sent to a connection begin, when it is admitted, with a
\* SYNC STEP1 of the hub's doc and then the AWARENESS snapshot of the
\* clients the hub knows; nothing was sent to it before, and whatever is
\* sent to it later comes after the two.
C12_InitialFrames ==
    [][\A s \in Sockets :
          /\ (connHub[s] = NoHub /\ connHub'[s] # NoHub)
             => /\ out[s] = <<>>
                /\ Len(out'[s]) \in 1..2
                /\ out'[s][1] = encodeInitialSyncMessage(doc'[connHub'[s]])
                /\ Len(out'[s]) = 2
                   => out'[s][2] = encodeAwarenessMessage(awStates'[connHub'[s]])
                /\ Len(out'[s]) = 1 => readyState'[s] # "OPEN"
          /\ connHub'[s] = NoHub => out'[s] = <<>>
          /\ connHub[s] # NoHub
             => /\ SubSeq(out'[s], 1, Len(out[s])) = out[s]
                /\ (Len(out[s]) = 1 => out'[s] = out[s])]_vars

\* A connection admitted to a hub that knew a client got STEP1, the
\* snapshot naming that client, and then a broadcast.
C12_Witness ==
    \E s \in Sockets :
        /\ connHub[s] # NoHub
        /\ Len(out[s]) = 3
        /\ out[s][1].type = "SYNC" /\ out[s][1].sub = "STEP1"
        /\ out[s][2].type = "AWARENESS" /\ out[s][2].payload # {}
        /\ IsBroadcast(out[s][3])

\* C13: an admission that ends at a cookie check or at the mayRead check
\* closes the socket, has not called getOrCreateRealtimeNote (no hub was
\* returned, no loader run, no hub constructed) and leaves the registry and
\* every hub's connection set as they were.
C13_DeniedAdmission ==
    [][\A s \in Sockets :
          (ev'.op \in {"noCookie", "denied"} /\ ev'.s = s)
          => /\ readyState'[s] \in {"CLOSING", "CLOSED"}
             /\ pc'[s] = "done"
             /\ returned'[s] = NoHub
             /\ s \notin loaderInvoked'
             /\ constructed' = constructed
             /\ registry' = registry
             /\ clients' = clients]_vars

\* A user who may not read the note was turned away while the note's hub
\* had a connection.
C13_Witness ==
    \E s \in Sockets :
        /\ ev = Event("denied", s)
        /\ readyState[s] = "CLOSING"
        /\ \E h \in constructed : registry[reqNote[s]] = h /\ clients[h] # {}

\* C14: an admission that ends because a lookup or the loader threw, or
\* because the socket was not OPEN after getOrCreateRealtimeNote, closes the
\* socket and registers no connection: none in a hub's set, none in
\* socketToConnection.
C14_FailedAdmission ==
    [][\A s \in Sockets :
          (ev'.op \in {"failed", "loaderFailed", "notOpen"} /\ ev'.s = s)
          => /\ readyState'[s] \in {"CLOSING", "CLOSED"}
             /\ pc'[s] = "done"
             /\ connHub'[s] = NoHub
             /\ s \notin socketToConnection'
             /\ \A h \in Hubs : s \notin clients'[h]]_vars

\* The socket closed while the loader ran; the hub was returned and the
\* admission stopped at the readyState check.
C14_Witness ==
    \E s \in Sockets :
        /\ ev = Event("notOpen", s)
        /\ returned[s] = s
        /\ readyState[s] = "CLOSED"
        /\ connHub[s] = NoHub

\* C15: when the loader of a getOrCreateRealtimeNote call fails, the
\* registry has no entry for the note afterwards and every other call
\* waiting for the creation of the same note's hub has failed too.
C15_LoaderFailureReleasesAll ==
    [][\A s \in Sockets :
          (ev'.op = "loaderFailed" /\ ev'.s = s)
          => /\ returned'[s] = NoHub
             /\ registry'[reqNote[s]] = NoHub
             /\ \A t \in Sockets :
                   (pc[t] = "load" /\ reqNote[t] = reqNote[s])
                   => (pc'[t] = "done" /\ returned'[t] = NoHub)]_vars

\* No handler is left to run: every client has connected, every admission
\* has ended and every socket has had its 'close' event.
Quiescent ==
    \A s \in Sockets : pc[s] = "done" /\ readyState[s] = "CLOSED"

\* C16: no hub leaks: once nothing is left to run, no hub that is not
\* closing and has no connection is registered.
C16_NoLeakedHub ==
    Quiescent =>
        \A h \in constructed :
            registry[hubNote[h]] = h => (isClosing[h] \/ clients[h] # {})

\* C17: a getOrCreateRealtimeNote call made while a hub that is not closing
\* is registered for the note returns that hub at once, invokes no loader,
\* constructs no hub and leaves the registry as it was.
C17_ReuseRegisteredHub ==
    [][\A s \in Sockets :
          (/\ pc[s] = "lookup"
           /\ pc'[s] = "load" \/ returned'[s] # NoHub
           /\ registry[reqNote[s]] # NoHub
           /\ ~isClosing[registry[reqNote[s]]])
          => /\ returned'[s] = registry[reqNote[s]]
             /\ pc'[s] = "done"
             /\ loaderInvoked' = loaderInvoked
             /\ constructed' = constructed
             /\ registry' = registry]_vars

\* A second client was admitted to the hub the first client's admission
\* had constructed; no loader ran for it.
C17_Witness ==
    \E s \in Sockets :
        /\ ev = Event("admitted", s)
        /\ returned[s] \notin {NoHub, s}
        /\ s \notin loaderInvoked
        /\ ~isClosing[returned[s]]
        /\ clients[returned[s]] = {s, returned[s]}

\* C18: the hub a getOrCreateRealtimeNote call returns is not closing.
C18_NeverReturnsClosing ==
    [][\A s \in Sockets :
          (returned[s] = NoHub /\ returned'[s] # NoHub)
          => ~isClosing'[returned'[s]]]_vars

\* C19: a run of check() that finds no pong has arrived since the run
\* before it, which sent a ping, closes the socket and sends no ping; and a
\* run of check() leaves the socket OPEN only if a pong has arrived since
\* the run before it, so one pong does not carry the socket over two runs.
C19_ClosedAfterOneMissedInterval ==
    [][(ticks' = ticks + 1 /\ kaSocket = "OPEN")
       => /\ (pingAtLastTick /\ ~pongSinceTick)
             => (kaSocket' = "CLOSING" /\ kaEv' = "noPong" /\ pingsSent' = pingsSent)
          /\ kaSocket' = "OPEN" => pongSinceTick]_vars

\* A pong arrived, the next run of check() sent a ping, no pong answered
\* it, and the run after that closed the socket.
C19_Witness ==
    /\ ticks >= 2
    /\ pingsSent = 1
    /\ pongs = 1
    /\ kaSocket = "CLOSING"
    /\ kaEv = "noPong"

\* C20: check() closes an OPEN socket for want of a pong only if the run
\* before it sent a ping that no pong has answered; the first run after the
\* construction sends a ping.
C20_StartsHealthy ==
    [][(ticks' = ticks + 1 /\ kaSocket = "OPEN")
       => /\ kaEv' = "noPong" => (pingAtLastTick /\ ~pongSinceTick)
          /\ (ticks = 0 /\ kaEv' # "pingError") => pingsSent' = 1]_vars

\* The loop getConnections().forEach(client => client.send(content)) as one
\* call of send after the other.
RECURSIVE SendEach(_, _, _, _)
SendEach(w, todo, content, failing) ==
    IF todo = {} THEN w
    ELSE LET c == CHOOSE x \in todo : \A y \in todo : x <= y
         IN  SendEach(Send(w, c, content, c \in failing), todo \ {c}, content, failing)

\* C21: send on a socket that is not OPEN changes nothing; on an OPEN
\* socket it hands over the frame and, when the write fails, closes the
\* socket and returns, so that a broadcast over the connections of a hub
\* reaches every OPEN one whatever writes fail.
C21_SendContract ==
    LET f == encodeSyncMessage({NumUpdates})
    IN  /\ \A s \in Sockets, err \in BOOLEAN :
              IF readyState[s] # "OPEN"
              THEN Send(World, s, f, err) = World
              ELSE Send(World, s, f, err) =
                     [World EXCEPT !.out[s] = Append(@, f),
                                   !.readyState[s] = IF err THEN "CLOSING" ELSE @]
        /\ \A h \in constructed : \A failing \in SUBSET clients[h] :
              /\ SendAll(World, clients[h], f, failing)
                    = SendEach(World, clients[h], f, failing)
              /\ \A r \in clients[h] :
                    readyState[r] = "OPEN"
                    => SendAll(World, clients[h], f, failing).out[r] = Append(out[r], f)

\* An awareness broadcast reached both connections of a hub although the
\* write to one of them failed.
C21_Witness ==
    \E s, r \in Sockets :
        /\ s # r
        /\ handled = 1
        /\ connHub[r] # NoHub
        /\ {s, r} \subseteq clients[connHub[r]]
        /\ readyState[s] = "CLOSING" /\ readyState[r] = "OPEN"
        /\ Len(out[s]) = 3 /\ Len(out[r]) = 3
        /\ out[s][3] = out[r][3]
        /\ out[s][3].type = "AWARENESS"

\* C22: a SYNC-UPDATE frame is sent in the step in which the hub accepts
\* its update and is put after everything the connection was sent before,
\* so the frames of two updates of one origin reach every other
\* connection in the order in which the hub accepted the updates.
C22_UpdateOrder ==
    [][\A r \in Sockets :
          /\ Len(out'[r]) >= Len(out[r])
          /\ SubSeq(out'[r], 1, Len(out[r])) = out[r]
          /\ \A f \in SentNow(r) :
                IsUpdate(f)
                => /\ ev'.op = "message" /\ ev'.s # r
                   /\ connHub[ev'.s] # NoHub
                   /\ f.payload # {}
                   /\ f.payload = doc'[connHub[ev'.s]] \ doc[connHub[ev'.s]]]_vars

\* One connection sent two updates; the other connection was sent the two
\* frames in that order.
C22_Witness ==
    \E s, r \in Sockets :
        /\ s # r
        /\ handled = 2
        /\ ev = Event("message", s)
        /\ Len(out[s]) = 2
        /\ Len(out[r]) = 4
        /\ IsUpdate(out[r][3]) /\ IsUpdate(out[r][4])
        /\ out[r][3].payload # out[r][4].payload
        /\ doc[connHub[s]] = {InitialStruct} \cup out[r][3].payload \cup out[r][4].payload

\* Connection s is in the set of its hub.
InSet(s) == connHub[s] # NoHub /\ s \in clients[connHub[s]]

\* The hub of connection s has no connection and has not been destroyed.
EmptyAndAlive(s) ==
    /\ connHub[s] # NoHub
    /\ clients[connHub[s]] = {}
    /\ ~(isClosing[connHub[s]] /\ docDestroyCalls[connHub[s]] = 1)

Answered(r) == \E i \in 1..Len(out[r]) : out[r][i].type = "SYNC" /\ out[r][i].sub = "STEP2"

\* C24: the STEP2 the hub sends in answer to a STEP1 holds every struct of
\* the hub's doc the state vector does not cover, so the client then holds
\* the whole doc; and every update of another connection the hub accepts
\* after that answer is sent to the client (while it is in the set with an
\* OPEN socket), so that nothing is lost after the handshake.
C24_LateJoiner ==
    [][/\ \A h \in constructed : \A sv \in StateVectors :
             doc[h] \subseteq sv \cup encodeSyncStep2(doc[h], sv).payload
       /\ \A s \in socketToConnection : \A sv \in StateVectors :
             (connHub[s] # NoHub /\ readyState[s] = "OPEN")
             => processIncomingSyncMessage(World, connHub[s], s, "STEP1", sv, {}).out[s]
                  = Append(out[s], encodeSyncStep2(doc[connHub[s]], sv))
       /\ \A s, r \in Sockets :
             (/\ ev'.op = "message" /\ ev'.s = s
              /\ connHub[s] # NoHub
              /\ doc'[connHub[s]] # doc[connHub[s]]
              /\ r \in clients[connHub[s]] /\ r # s
              /\ Answered(r) /\ readyState[r] = "OPEN")
             => out'[r] = Append(out[r],
                    encodeSyncMessage(doc'[connHub[s]] \ doc[connHub[s]]))]_vars

\* C27: when the handler of a frame throws, the adapter catches the error:
\* no socket is closed, no connection leaves its hub's set, nothing is
\* sent, and the hub's doc and awareness are as before.
C27_HandlerErrorIsCaught ==
    [][ev'.op = "threw"
       => /\ readyState' = readyState
          /\ clients' = clients
          /\ socketToConnection' = socketToConnection
          /\ isClosing' = isClosing
          /\ registry' = registry
          /\ out' = out
          /\ doc' = doc /\ awClock' = awClock /\ awStates' = awStates]_vars

\* The handler of a frame of a connected client threw; the connection is
\* in its hub's set, its socket is OPEN, and a further frame can be handled.
C27_Witness ==
    \E s \in Sockets :
        /\ ev = Event("threw", s)
        /\ InSet(s)
        /\ s \in socketToConnection
        /\ readyState[s] = "OPEN"
        /\ handled = 1
        /\ ENABLED HandleSync(s, "UPDATE", {1}, {})

\* C28: a frame with no tag or with a tag no handler is registered for is
\* dropped: no error leaves the message handler, no socket is closed, the
\* connection sets, the docs and the awareness are as before.
C28_MalformedFrameDropped ==
    [][ev'.op \in {"noHandler", "escaped"}
       => /\ ev'.op # "escaped"
          /\ readyState' = readyState
          /\ clients' = clients
          /\ doc' = doc /\ awClock' = awClock /\ awStates' = awStates]_vars

\* C29: a frame of a type other than SYNC and AWARENESS that reaches the
\* hub leaves doc, awareness, connection set and closing flag as they were
\* and sends nothing.
C29_OtherTypesIgnored ==
    [][ev'.op = "ignored"
       => /\ doc' = doc /\ awClock' = awClock /\ awStates' = awStates
          /\ clients' = clients
          /\ isClosing' = isClosing
          /\ out' = out
          /\ readyState' = readyState]_vars

\* A HEDGEDOC frame of one of two connected clients was handled.
C29_Witness ==
    \E s, r \in Sockets :
        /\ s # r
        /\ ev = Event("ignored", s)
        /\ InSet(s) /\ InSet(r)
        /\ readyState[s] = "OPEN" /\ readyState[r] = "OPEN"

\* The frames w holds for socket r beyond those of the current state.
Added(w, r) == {w.out[r][i] : i \in (Len(out[r]) + 1)..Len(w.out[r])}

\* C30: in every reachable state, handling a STEP1 of a connection sends
\* one frame, the STEP2 answer, to that connection and nothing to any
\* other; handling a STEP2 or an UPDATE sends nothing to that connection
\* and nothing but SYNC-UPDATE frames to the others.
C30_ResponseOnlyToOrigin ==
    \A s \in socketToConnection :
        connHub[s] # NoHub =>
          LET h == connHub[s] IN
          /\ \A sv \in StateVectors, err \in BOOLEAN :
                LET w == processIncomingSyncMessage(World, h, s, "STEP1", sv,
                                                    IF err THEN {s} ELSE {})
                IN  /\ \A r \in Sockets \ {s} : w.out[r] = out[r]
                    /\ readyState[s] = "OPEN"
                       => w.out[s] = Append(out[s], encodeSyncStep2(doc[h], sv))
                    /\ readyState[s] # "OPEN" => w.out[s] = out[s]
          /\ \A sub \in {"STEP2", "UPDATE"}, payload \in Updates :
                LET w == processIncomingSyncMessage(World, h, s, sub, payload, {})
                IN  /\ w.out[s] = out[s]
                    /\ \A r \in Sockets : \A f \in Added(w, r) : IsUpdate(f)

\* A STEP1 of one of two connected clients was answered: the STEP2 went to
\* that client, nothing to the other.
C30_Witness ==
    \E s, r \in Sockets :
        /\ s # r
        /\ ev = Event("message", s)
        /\ handled = 1
        /\ InSet(s) /\ InSet(r)
        /\ Len(out[s]) = 3 /\ out[s][3].sub = "STEP2"
        /\ Len(out[r]) = 2 /\ readyState[r] = "OPEN"

\* The path is '/realtime/?noteId=' and then an id of one piece or more.
HasForm(path) ==
    /\ path.defined
    /\ Len(path.text) > 2
    /\ SubSeq(path.text, 1, 2) = PathPrefix

\* What follows '/realtime/?noteId=' in the path.
IdOf(path) == SubSeq(path.text, 3, Len(path.text))

\* C25 as stated: the function returns the text after '/realtime/?noteId='
\* for every path of that form with an id that is not empty and fails for
\* every other argument.
C25_ExtractNoteId ==
    extracted.ran =>
        extracted = IF HasForm(realtimePath) THEN Returned(IdOf(realtimePath))
                    ELSE Thrown

\* C25, amended: the function returns the text after '/realtime/?noteId='
\* for every path of that form whose id is not empty and holds no line
\* terminator, and fails for every other argument: the undefined and the
\* empty path, '/realtime/', '/realtime/?noteId=', '/other?noteId=a', and a
\* path of that form whose id holds a line terminator.
C25_ExtractNoteIdOneLine ==
    extracted.ran =>
        extracted = IF /\ HasForm(realtimePath)
                       /\ \A i \in 1..Len(IdOf(realtimePath)) :
                             IdOf(realtimePath)[i] # LineFeed
                    THEN Returned(IdOf(realtimePath))
                    ELSE Thrown

\* '/realtime/?noteId=ab' gave 'ab'.
C25_Witness ==
    /\ realtimePath = [defined |-> TRUE, text |-> PathPrefix \o <<"a", "b">>]
    /\ extracted = Returned(<<"a", "b">>)

\* C26: in every reachable state, destroy() on a hub leaves no connection
\* of the hub's set with an OPEN socket: close() has been called on the
\* socket of each, although each disconnect() takes its connection out of
\* the set the loop runs over.
C26_DestroyClosesAll ==
    \A h \in constructed : \A c \in clients[h] :
        DestroyNote(World, h).readyState[c] # "OPEN"

\* C31: connectClient adds the given connection to the hub's set and does
\* nothing else.  In every reachable state, for every hub and connection,
\* the call leaves outputs, socket states, the registry, the closing flags
\* and the destroy counts as they were; and a step that admits a socket puts
\* it in the set of the hub it was given, sends nothing to another socket
\* and leaves the awareness, the closing flags and, where the hub was
\* reused, the doc and the registry unchanged.
C31_ConnectClientOnlyAdds ==
    [][/\ \A h \in constructed : \A c \in Sockets :
             ConnectClient(World, h, c) =
                 [World EXCEPT !.clients[h] = clients[h] \cup {c}]
       /\ \A s \in Sockets :
             ev' = Event("admitted", s) =>
                /\ clients' = [clients EXCEPT ![returned'[s]] = @ \cup {s}]
                /\ \A r \in Sockets \ {s} : out'[r] = out[r]
                /\ \A r \in Sockets \ {s} : readyState'[r] = readyState[r]
                /\ awClock' = awClock /\ awStates' = awStates
                /\ isClosing' = isClosing
                /\ docDestroyCalls' = docDestroyCalls
                /\ awDestroyCalls' = awDestroyCalls
                /\ pc[s] = "lookup" => doc' = doc /\ registry' = registry]_vars

\* A socket has been admitted to a hub that had a connection with an open
\* socket, which was sent nothing on the occasion.
C31_Witness ==
    \E s \in Sockets : \E r \in Sockets \ {s} :
        /\ ev = Event("admitted", s)
        /\ connHub[s] # NoHub
        /\ clients[connHub[s]] = {r, s}
        /\ readyState[r] = "OPEN"
        /\ Len(out[r]) = 2

\* C32: once the socket's 'close' event has come the interval is cleared:
\* check() does not run again, no ping is sent and the socket is not closed
\* again.
C32_TimerCancelledOnClose ==
    [][kaSocket = "CLOSED" =>
          /\ ticks' = ticks
          /\ pingsSent' = pingsSent
          /\ kaSocket' = "CLOSED"]_vars

\* The socket has closed after check() had run and pinged, with runs of the
\* interval to come had it not been cleared.
C32_Witness ==
    /\ kaSocket = "CLOSED"
    /\ ticks >= 1
    /\ pingsSent >= 1
    /\ ticks < MaxTicks

\* C33: every connection in a hub's set was constructed with the hub as
\* its realtimeNote, a connection is in the set of one hub at most, and a
\* connection leaves a set only in a step in which disconnect() ran on it
\* (a 'close' or 'error' event or a destroy(), after which close() has been
\* called on its socket).
C33_MembersBelongToHub ==
    [][/\ \A h \in Hubs : \A c \in clients'[h] : connHub'[c] = h
       /\ \A h, g \in Hubs : h # g => clients'[h] \cap clients'[g] = {}
       /\ \A h \in Hubs : \A c \in clients[h] \ clients'[h] :
             /\ ev'.op \in {"disconnect", "destroy"}
             /\ readyState'[c] \in {"CLOSING", "CLOSED"}]_vars

\* One of the two connections of a hub has disconnected, the other is still
\* in the set with its socket open.
C33_Witness ==
    \E h \in constructed : \E c, d \in Sockets :
        /\ ev.op = "disconnect"
        /\ connHub[c] = h /\ connHub[d] = h
        /\ clients[h] = {c}
        /\ readyState[c] = "OPEN"
        /\ readyState[d] = "CLOSED"

\* C34: when a hub's destruction takes an entry out of the registry, the
\* entry mapped to that hub: the hub that was registered is closing and has
\* no connection in the state the step leaves.  So no hub that is not
\* closing and has connections loses its entry to the onDestroy callback of
\* another hub.
C34_RemovesOnlyOwnEntry ==
    [][\A n \in Notes :
          (registry[n] # NoHub /\ registry'[n] = NoHub) =>
              /\ isClosing'[registry[n]]
              /\ clients'[registry[n]] = {}]_vars

\* C35: a SYNC, AWARENESS or HEDGEDOC frame is handled by the hub only for a
\* socket with an entry in socketToConnection; for a socket without one the
\* handler throws, the adapter catches, and no doc, awareness, connection
\* set, socket state or output changes.  In every state a step leaves no
\* closed socket has an entry.
C35_UnknownSocketRejected ==
    [][/\ ev'.op \in {"message", "ignored"} => ev'.s \in socketToConnection
       /\ \A s \in Sockets \ socketToConnection :
             ev' = Event("threw", s) =>
                /\ doc' = doc /\ awClock' = awClock /\ awStates' = awStates
                /\ out' = out
                /\ clients' = clients /\ readyState' = readyState
                /\ registry' = registry /\ isClosing' = isClosing
                /\ socketToConnection' = socketToConnection
       /\ \A s \in Sockets :
             readyState'[s] = "CLOSED" => s \notin socketToConnection']_vars

\* A frame has been rejected for a socket that awaits its lookups, while
\* another socket has a connection and is open.
C35_Witness ==
    \E s \in Sockets : \E r \in Sockets \ {s} :
        /\ ev = Event("threw", s)
        /\ pc[s] = "lookup"
        /\ r \in socketToConnection
        /\ readyState[r] = "OPEN"

====
